---------------------------- MODULE Spec2Model ----------------------------
(***************************************************************************)
(* Model of prepare_data.py, the dataset integrity checker of the D-Fire   *)
(* smoke detection dataset: check_integrity, _find_label_file,             *)
(* _process_label, print_report and main.                                  *)
(*                                                                         *)
(* Text is modelled as sequences of Unicode code points, so that            *)
(* str.strip/str.split, int(), float(), Path.suffix/with_suffix and the    *)
(* glob pattern match are computed rather than assumed.                    *)
(***************************************************************************)
EXTENDS Integers, Sequences, FiniteSets, TLC

(***************************************************************************)
(* Bounds of the model.                                                    *)
(***************************************************************************)
\* most annotation lines of the annotation file whose content is enumerated
MaxLines == 3
\* most entries of the enumerated split directory (SpecSplit)
MaxFiles == 4
\* most entries of each split directory of the whole program run (Spec)
MaxMainFiles == 2

(***************************************************************************)
(* Characters and strings.  A character is its Unicode code point and a    *)
(* text is a sequence of characters.  The character tables are those of    *)
(* Unicode 14.0.0, the version of the interpreter the program runs on.     *)
(***************************************************************************)
\* the printable ASCII characters in order, U+0020 to U+005F (the grave accent
\* U+0060 that follows cannot be written in a string)
AsciiTo95 == <<
    " ", "!", "\"", "#", "$", "%", "&", "'", "(", ")", "*", "+", ",", "-", ".", "/",
    "0", "1", "2", "3", "4", "5", "6", "7", "8", "9", ":", ";", "<", "=", ">", "?",
    "@", "A", "B", "C", "D", "E", "F", "G", "H", "I", "J", "K", "L", "M", "N", "O",
    "P", "Q", "R", "S", "T", "U", "V", "W", "X", "Y", "Z", "[", "\\", "]", "^", "_" >>

\* U+0061 to U+007E
AsciiFrom97 == <<
    "a", "b", "c", "d", "e", "f", "g", "h", "i", "j", "k", "l", "m", "n", "o", "p",
    "q", "r", "s", "t", "u", "v", "w", "x", "y", "z", "{", "|", "}", "~" >>

\* ord(ch) of a printable ASCII character
Ord(ch) ==
    IF \E i \in 1..Len(AsciiTo95) : AsciiTo95[i] = ch
    THEN 31 + CHOOSE i \in 1..Len(AsciiTo95) : AsciiTo95[i] = ch
    ELSE 96 + CHOOSE i \in 1..Len(AsciiFrom97) : AsciiFrom97[i] = ch

\* the text written with the printable ASCII characters chars
Txt(chars) == [i \in 1..Len(chars) |-> Ord(chars[i])]

BLANK   == Ord(" ")
DOT     == Ord(".")
PLUS    == Ord("+")
MINUS   == Ord("-")
USCORE  == Ord("_")
SLASH   == Ord("/")
BSLASH  == Ord("\\")
ZERO    == Ord("0")
LETTER_E == Ord("e")

RECURSIVE Flatten(_)
Flatten(ss) == IF ss = <<>> THEN <<>> ELSE Head(ss) \o Flatten(Tail(ss))

\* str.lower of the characters whose lower case is one other character:
\* <<first, last, step, delta>> stands for first, first + step, ..., last, each
\* going to itself + delta
LowerRuns == {
    <<65, 90, 1, 32>>, <<192, 214, 1, 32>>, <<216, 222, 1, 32>>, <<256, 302, 2, 1>>,
    <<306, 310, 2, 1>>, <<313, 327, 2, 1>>, <<330, 374, 2, 1>>, <<376, 376, 1, -121>>,
    <<377, 381, 2, 1>>, <<385, 385, 1, 210>>, <<386, 388, 2, 1>>, <<390, 390, 1, 206>>,
    <<391, 391, 1, 1>>, <<393, 394, 1, 205>>, <<395, 395, 1, 1>>, <<398, 398, 1, 79>>,
    <<399, 399, 1, 202>>, <<400, 400, 1, 203>>, <<401, 401, 1, 1>>, <<403, 403, 1, 205>>,
    <<404, 404, 1, 207>>, <<406, 406, 1, 211>>, <<407, 407, 1, 209>>, <<408, 408, 1, 1>>,
    <<412, 412, 1, 211>>, <<413, 413, 1, 213>>, <<415, 415, 1, 214>>, <<416, 420, 2, 1>>,
    <<422, 422, 1, 218>>, <<423, 423, 1, 1>>, <<425, 425, 1, 218>>, <<428, 428, 1, 1>>,
    <<430, 430, 1, 218>>, <<431, 431, 1, 1>>, <<433, 434, 1, 217>>, <<435, 437, 2, 1>>,
    <<439, 439, 1, 219>>, <<440, 440, 1, 1>>, <<444, 444, 1, 1>>, <<452, 452, 1, 2>>,
    <<453, 453, 1, 1>>, <<455, 455, 1, 2>>, <<456, 456, 1, 1>>, <<458, 458, 1, 2>>,
    <<459, 475, 2, 1>>, <<478, 494, 2, 1>>, <<497, 497, 1, 2>>, <<498, 500, 2, 1>>,
    <<502, 502, 1, -97>>, <<503, 503, 1, -56>>, <<504, 542, 2, 1>>, <<544, 544, 1, -130>>,
    <<546, 562, 2, 1>>, <<570, 570, 1, 10795>>, <<571, 571, 1, 1>>, <<573, 573, 1, -163>>,
    <<574, 574, 1, 10792>>, <<577, 577, 1, 1>>, <<579, 579, 1, -195>>, <<580, 580, 1, 69>>,
    <<581, 581, 1, 71>>, <<582, 590, 2, 1>>, <<880, 882, 2, 1>>, <<886, 886, 1, 1>>,
    <<895, 895, 1, 116>>, <<902, 902, 1, 38>>, <<904, 906, 1, 37>>, <<908, 908, 1, 64>>,
    <<910, 911, 1, 63>>, <<913, 929, 1, 32>>, <<931, 939, 1, 32>>, <<975, 975, 1, 8>>,
    <<984, 1006, 2, 1>>, <<1012, 1012, 1, -60>>, <<1015, 1015, 1, 1>>, <<1017, 1017, 1, -7>>,
    <<1018, 1018, 1, 1>>, <<1021, 1023, 1, -130>>, <<1024, 1039, 1, 80>>, <<1040, 1071, 1, 32>>,
    <<1120, 1152, 2, 1>>, <<1162, 1214, 2, 1>>, <<1216, 1216, 1, 15>>, <<1217, 1229, 2, 1>>,
    <<1232, 1326, 2, 1>>, <<1329, 1366, 1, 48>>, <<4256, 4293, 1, 7264>>, <<4295, 4295, 1, 7264>>,
    <<4301, 4301, 1, 7264>>, <<5024, 5103, 1, 38864>>, <<5104, 5109, 1, 8>>, <<7312, 7354, 1, -3008>>,
    <<7357, 7359, 1, -3008>>, <<7680, 7828, 2, 1>>, <<7838, 7838, 1, -7615>>, <<7840, 7934, 2, 1>>,
    <<7944, 7951, 1, -8>>, <<7960, 7965, 1, -8>>, <<7976, 7983, 1, -8>>, <<7992, 7999, 1, -8>>,
    <<8008, 8013, 1, -8>>, <<8025, 8031, 2, -8>>, <<8040, 8047, 1, -8>>, <<8072, 8079, 1, -8>>,
    <<8088, 8095, 1, -8>>, <<8104, 8111, 1, -8>>, <<8120, 8121, 1, -8>>, <<8122, 8123, 1, -74>>,
    <<8124, 8124, 1, -9>>, <<8136, 8139, 1, -86>>, <<8140, 8140, 1, -9>>, <<8152, 8153, 1, -8>>,
    <<8154, 8155, 1, -100>>, <<8168, 8169, 1, -8>>, <<8170, 8171, 1, -112>>, <<8172, 8172, 1, -7>>,
    <<8184, 8185, 1, -128>>, <<8186, 8187, 1, -126>>, <<8188, 8188, 1, -9>>, <<8486, 8486, 1, -7517>>,
    <<8490, 8490, 1, -8383>>, <<8491, 8491, 1, -8262>>, <<8498, 8498, 1, 28>>, <<8544, 8559, 1, 16>>,
    <<8579, 8579, 1, 1>>, <<9398, 9423, 1, 26>>, <<11264, 11311, 1, 48>>, <<11360, 11360, 1, 1>>,
    <<11362, 11362, 1, -10743>>, <<11363, 11363, 1, -3814>>, <<11364, 11364, 1, -10727>>, <<11367, 11371, 2, 1>>,
    <<11373, 11373, 1, -10780>>, <<11374, 11374, 1, -10749>>, <<11375, 11375, 1, -10783>>, <<11376, 11376, 1, -10782>>,
    <<11378, 11378, 1, 1>>, <<11381, 11381, 1, 1>>, <<11390, 11391, 1, -10815>>, <<11392, 11490, 2, 1>>,
    <<11499, 11501, 2, 1>>, <<11506, 11506, 1, 1>>, <<42560, 42604, 2, 1>>, <<42624, 42650, 2, 1>>,
    <<42786, 42798, 2, 1>>, <<42802, 42862, 2, 1>>, <<42873, 42875, 2, 1>>, <<42877, 42877, 1, -35332>>,
    <<42878, 42886, 2, 1>>, <<42891, 42891, 1, 1>>, <<42893, 42893, 1, -42280>>, <<42896, 42898, 2, 1>>,
    <<42902, 42920, 2, 1>>, <<42922, 42922, 1, -42308>>, <<42923, 42923, 1, -42319>>, <<42924, 42924, 1, -42315>>,
    <<42925, 42925, 1, -42305>>, <<42926, 42926, 1, -42308>>, <<42928, 42928, 1, -42258>>, <<42929, 42929, 1, -42282>>,
    <<42930, 42930, 1, -42261>>, <<42931, 42931, 1, 928>>, <<42932, 42946, 2, 1>>, <<42948, 42948, 1, -48>>,
    <<42949, 42949, 1, -42307>>, <<42950, 42950, 1, -35384>>, <<42951, 42953, 2, 1>>, <<42960, 42960, 1, 1>>,
    <<42966, 42968, 2, 1>>, <<42997, 42997, 1, 1>>, <<65313, 65338, 1, 32>>, <<66560, 66599, 1, 40>>,
    <<66736, 66771, 1, 40>>, <<66928, 66938, 1, 39>>, <<66940, 66954, 1, 39>>, <<66956, 66962, 1, 39>>,
    <<66964, 66965, 1, 39>>, <<68736, 68786, 1, 64>>, <<71840, 71871, 1, 32>>, <<93760, 93791, 1, 32>>,
    <<125184, 125217, 1, 34>> }

\* str.upper of the characters whose upper case is one other character
UpperRuns == {
    <<97, 122, 1, -32>>, <<181, 181, 1, 743>>, <<224, 246, 1, -32>>, <<248, 254, 1, -32>>,
    <<255, 255, 1, 121>>, <<257, 303, 2, -1>>, <<305, 305, 1, -232>>, <<307, 311, 2, -1>>,
    <<314, 328, 2, -1>>, <<331, 375, 2, -1>>, <<378, 382, 2, -1>>, <<383, 383, 1, -300>>,
    <<384, 384, 1, 195>>, <<387, 389, 2, -1>>, <<392, 392, 1, -1>>, <<396, 396, 1, -1>>,
    <<402, 402, 1, -1>>, <<405, 405, 1, 97>>, <<409, 409, 1, -1>>, <<410, 410, 1, 163>>,
    <<414, 414, 1, 130>>, <<417, 421, 2, -1>>, <<424, 424, 1, -1>>, <<429, 429, 1, -1>>,
    <<432, 432, 1, -1>>, <<436, 438, 2, -1>>, <<441, 441, 1, -1>>, <<445, 445, 1, -1>>,
    <<447, 447, 1, 56>>, <<453, 453, 1, -1>>, <<454, 454, 1, -2>>, <<456, 456, 1, -1>>,
    <<457, 457, 1, -2>>, <<459, 459, 1, -1>>, <<460, 460, 1, -2>>, <<462, 476, 2, -1>>,
    <<477, 477, 1, -79>>, <<479, 495, 2, -1>>, <<498, 498, 1, -1>>, <<499, 499, 1, -2>>,
    <<501, 501, 1, -1>>, <<505, 543, 2, -1>>, <<547, 563, 2, -1>>, <<572, 572, 1, -1>>,
    <<575, 576, 1, 10815>>, <<578, 578, 1, -1>>, <<583, 591, 2, -1>>, <<592, 592, 1, 10783>>,
    <<593, 593, 1, 10780>>, <<594, 594, 1, 10782>>, <<595, 595, 1, -210>>, <<596, 596, 1, -206>>,
    <<598, 599, 1, -205>>, <<601, 601, 1, -202>>, <<603, 603, 1, -203>>, <<604, 604, 1, 42319>>,
    <<608, 608, 1, -205>>, <<609, 609, 1, 42315>>, <<611, 611, 1, -207>>, <<613, 613, 1, 42280>>,
    <<614, 614, 1, 42308>>, <<616, 616, 1, -209>>, <<617, 617, 1, -211>>, <<618, 618, 1, 42308>>,
    <<619, 619, 1, 10743>>, <<620, 620, 1, 42305>>, <<623, 623, 1, -211>>, <<625, 625, 1, 10749>>,
    <<626, 626, 1, -213>>, <<629, 629, 1, -214>>, <<637, 637, 1, 10727>>, <<640, 640, 1, -218>>,
    <<642, 642, 1, 42307>>, <<643, 643, 1, -218>>, <<647, 647, 1, 42282>>, <<648, 648, 1, -218>>,
    <<649, 649, 1, -69>>, <<650, 651, 1, -217>>, <<652, 652, 1, -71>>, <<658, 658, 1, -219>>,
    <<669, 669, 1, 42261>>, <<670, 670, 1, 42258>>, <<837, 837, 1, 84>>, <<881, 883, 2, -1>>,
    <<887, 887, 1, -1>>, <<891, 893, 1, 130>>, <<940, 940, 1, -38>>, <<941, 943, 1, -37>>,
    <<945, 961, 1, -32>>, <<962, 962, 1, -31>>, <<963, 971, 1, -32>>, <<972, 972, 1, -64>>,
    <<973, 974, 1, -63>>, <<976, 976, 1, -62>>, <<977, 977, 1, -57>>, <<981, 981, 1, -47>>,
    <<982, 982, 1, -54>>, <<983, 983, 1, -8>>, <<985, 1007, 2, -1>>, <<1008, 1008, 1, -86>>,
    <<1009, 1009, 1, -80>>, <<1010, 1010, 1, 7>>, <<1011, 1011, 1, -116>>, <<1013, 1013, 1, -96>>,
    <<1016, 1016, 1, -1>>, <<1019, 1019, 1, -1>>, <<1072, 1103, 1, -32>>, <<1104, 1119, 1, -80>>,
    <<1121, 1153, 2, -1>>, <<1163, 1215, 2, -1>>, <<1218, 1230, 2, -1>>, <<1231, 1231, 1, -15>>,
    <<1233, 1327, 2, -1>>, <<1377, 1414, 1, -48>>, <<4304, 4346, 1, 3008>>, <<4349, 4351, 1, 3008>>,
    <<5112, 5117, 1, -8>>, <<7296, 7296, 1, -6254>>, <<7297, 7297, 1, -6253>>, <<7298, 7298, 1, -6244>>,
    <<7299, 7300, 1, -6242>>, <<7301, 7301, 1, -6243>>, <<7302, 7302, 1, -6236>>, <<7303, 7303, 1, -6181>>,
    <<7304, 7304, 1, 35266>>, <<7545, 7545, 1, 35332>>, <<7549, 7549, 1, 3814>>, <<7566, 7566, 1, 35384>>,
    <<7681, 7829, 2, -1>>, <<7835, 7835, 1, -59>>, <<7841, 7935, 2, -1>>, <<7936, 7943, 1, 8>>,
    <<7952, 7957, 1, 8>>, <<7968, 7975, 1, 8>>, <<7984, 7991, 1, 8>>, <<8000, 8005, 1, 8>>,
    <<8017, 8023, 2, 8>>, <<8032, 8039, 1, 8>>, <<8048, 8049, 1, 74>>, <<8050, 8053, 1, 86>>,
    <<8054, 8055, 1, 100>>, <<8056, 8057, 1, 128>>, <<8058, 8059, 1, 112>>, <<8060, 8061, 1, 126>>,
    <<8112, 8113, 1, 8>>, <<8126, 8126, 1, -7205>>, <<8144, 8145, 1, 8>>, <<8160, 8161, 1, 8>>,
    <<8165, 8165, 1, 7>>, <<8526, 8526, 1, -28>>, <<8560, 8575, 1, -16>>, <<8580, 8580, 1, -1>>,
    <<9424, 9449, 1, -26>>, <<11312, 11359, 1, -48>>, <<11361, 11361, 1, -1>>, <<11365, 11365, 1, -10795>>,
    <<11366, 11366, 1, -10792>>, <<11368, 11372, 2, -1>>, <<11379, 11379, 1, -1>>, <<11382, 11382, 1, -1>>,
    <<11393, 11491, 2, -1>>, <<11500, 11502, 2, -1>>, <<11507, 11507, 1, -1>>, <<11520, 11557, 1, -7264>>,
    <<11559, 11559, 1, -7264>>, <<11565, 11565, 1, -7264>>, <<42561, 42605, 2, -1>>, <<42625, 42651, 2, -1>>,
    <<42787, 42799, 2, -1>>, <<42803, 42863, 2, -1>>, <<42874, 42876, 2, -1>>, <<42879, 42887, 2, -1>>,
    <<42892, 42892, 1, -1>>, <<42897, 42899, 2, -1>>, <<42900, 42900, 1, 48>>, <<42903, 42921, 2, -1>>,
    <<42933, 42947, 2, -1>>, <<42952, 42954, 2, -1>>, <<42961, 42961, 1, -1>>, <<42967, 42969, 2, -1>>,
    <<42998, 42998, 1, -1>>, <<43859, 43859, 1, -928>>, <<43888, 43967, 1, -38864>>, <<65345, 65370, 1, -32>>,
    <<66600, 66639, 1, -40>>, <<66776, 66811, 1, -40>>, <<66967, 66977, 1, -39>>, <<66979, 66993, 1, -39>>,
    <<66995, 67001, 1, -39>>, <<67003, 67004, 1, -39>>, <<68800, 68850, 1, -64>>, <<71872, 71903, 1, -32>>,
    <<93792, 93823, 1, -32>>, <<125218, 125251, 1, -34>> }

\* str.upper of the characters whose upper case is more than one character
UpperSpecial == {
    <<223, <<83, 83>>>>, <<329, <<700, 78>>>>, <<496, <<74, 780>>>>,
    <<912, <<921, 776, 769>>>>, <<944, <<933, 776, 769>>>>, <<1415, <<1333, 1362>>>>,
    <<7830, <<72, 817>>>>, <<7831, <<84, 776>>>>, <<7832, <<87, 778>>>>,
    <<7833, <<89, 778>>>>, <<7834, <<65, 702>>>>, <<8016, <<933, 787>>>>,
    <<8018, <<933, 787, 768>>>>, <<8020, <<933, 787, 769>>>>, <<8022, <<933, 787, 834>>>>,
    <<8064, <<7944, 921>>>>, <<8065, <<7945, 921>>>>, <<8066, <<7946, 921>>>>,
    <<8067, <<7947, 921>>>>, <<8068, <<7948, 921>>>>, <<8069, <<7949, 921>>>>,
    <<8070, <<7950, 921>>>>, <<8071, <<7951, 921>>>>, <<8072, <<7944, 921>>>>,
    <<8073, <<7945, 921>>>>, <<8074, <<7946, 921>>>>, <<8075, <<7947, 921>>>>,
    <<8076, <<7948, 921>>>>, <<8077, <<7949, 921>>>>, <<8078, <<7950, 921>>>>,
    <<8079, <<7951, 921>>>>, <<8080, <<7976, 921>>>>, <<8081, <<7977, 921>>>>,
    <<8082, <<7978, 921>>>>, <<8083, <<7979, 921>>>>, <<8084, <<7980, 921>>>>,
    <<8085, <<7981, 921>>>>, <<8086, <<7982, 921>>>>, <<8087, <<7983, 921>>>>,
    <<8088, <<7976, 921>>>>, <<8089, <<7977, 921>>>>, <<8090, <<7978, 921>>>>,
    <<8091, <<7979, 921>>>>, <<8092, <<7980, 921>>>>, <<8093, <<7981, 921>>>>,
    <<8094, <<7982, 921>>>>, <<8095, <<7983, 921>>>>, <<8096, <<8040, 921>>>>,
    <<8097, <<8041, 921>>>>, <<8098, <<8042, 921>>>>, <<8099, <<8043, 921>>>>,
    <<8100, <<8044, 921>>>>, <<8101, <<8045, 921>>>>, <<8102, <<8046, 921>>>>,
    <<8103, <<8047, 921>>>>, <<8104, <<8040, 921>>>>, <<8105, <<8041, 921>>>>,
    <<8106, <<8042, 921>>>>, <<8107, <<8043, 921>>>>, <<8108, <<8044, 921>>>>,
    <<8109, <<8045, 921>>>>, <<8110, <<8046, 921>>>>, <<8111, <<8047, 921>>>>,
    <<8114, <<8122, 921>>>>, <<8115, <<913, 921>>>>, <<8116, <<902, 921>>>>,
    <<8118, <<913, 834>>>>, <<8119, <<913, 834, 921>>>>, <<8124, <<913, 921>>>>,
    <<8130, <<8138, 921>>>>, <<8131, <<919, 921>>>>, <<8132, <<905, 921>>>>,
    <<8134, <<919, 834>>>>, <<8135, <<919, 834, 921>>>>, <<8140, <<919, 921>>>>,
    <<8146, <<921, 776, 768>>>>, <<8147, <<921, 776, 769>>>>, <<8150, <<921, 834>>>>,
    <<8151, <<921, 776, 834>>>>, <<8162, <<933, 776, 768>>>>, <<8163, <<933, 776, 769>>>>,
    <<8164, <<929, 787>>>>, <<8166, <<933, 834>>>>, <<8167, <<933, 776, 834>>>>,
    <<8178, <<8186, 921>>>>, <<8179, <<937, 921>>>>, <<8180, <<911, 921>>>>,
    <<8182, <<937, 834>>>>, <<8183, <<937, 834, 921>>>>, <<8188, <<937, 921>>>>,
    <<64256, <<70, 70>>>>, <<64257, <<70, 73>>>>, <<64258, <<70, 76>>>>,
    <<64259, <<70, 70, 73>>>>, <<64260, <<70, 70, 76>>>>, <<64261, <<83, 84>>>>,
    <<64262, <<83, 84>>>>, <<64275, <<1348, 1350>>>>, <<64276, <<1348, 1333>>>>,
    <<64277, <<1348, 1339>>>>, <<64278, <<1358, 1350>>>>, <<64279, <<1348, 1341>>>> }

\* the cased characters (upper, lower or title case), as ranges <<first, last>>
CasedRanges == {
    <<65, 90>>, <<97, 122>>, <<170, 170>>, <<181, 181>>, <<186, 186>>, <<192, 214>>,
    <<216, 246>>, <<248, 442>>, <<444, 447>>, <<452, 659>>, <<661, 696>>, <<704, 705>>,
    <<736, 740>>, <<837, 837>>, <<880, 883>>, <<886, 887>>, <<890, 893>>, <<895, 895>>,
    <<902, 902>>, <<904, 906>>, <<908, 908>>, <<910, 929>>, <<931, 1013>>, <<1015, 1153>>,
    <<1162, 1327>>, <<1329, 1366>>, <<1376, 1416>>, <<4256, 4293>>, <<4295, 4295>>, <<4301, 4301>>,
    <<4304, 4346>>, <<4349, 4351>>, <<5024, 5109>>, <<5112, 5117>>, <<7296, 7304>>, <<7312, 7354>>,
    <<7357, 7359>>, <<7424, 7615>>, <<7680, 7957>>, <<7960, 7965>>, <<7968, 8005>>, <<8008, 8013>>,
    <<8016, 8023>>, <<8025, 8025>>, <<8027, 8027>>, <<8029, 8029>>, <<8031, 8061>>, <<8064, 8116>>,
    <<8118, 8124>>, <<8126, 8126>>, <<8130, 8132>>, <<8134, 8140>>, <<8144, 8147>>, <<8150, 8155>>,
    <<8160, 8172>>, <<8178, 8180>>, <<8182, 8188>>, <<8305, 8305>>, <<8319, 8319>>, <<8336, 8348>>,
    <<8450, 8450>>, <<8455, 8455>>, <<8458, 8467>>, <<8469, 8469>>, <<8473, 8477>>, <<8484, 8484>>,
    <<8486, 8486>>, <<8488, 8488>>, <<8490, 8493>>, <<8495, 8500>>, <<8505, 8505>>, <<8508, 8511>>,
    <<8517, 8521>>, <<8526, 8526>>, <<8544, 8575>>, <<8579, 8580>>, <<9398, 9449>>, <<11264, 11492>>,
    <<11499, 11502>>, <<11506, 11507>>, <<11520, 11557>>, <<11559, 11559>>, <<11565, 11565>>, <<42560, 42605>>,
    <<42624, 42653>>, <<42786, 42887>>, <<42891, 42894>>, <<42896, 42954>>, <<42960, 42961>>, <<42963, 42963>>,
    <<42965, 42969>>, <<42997, 42998>>, <<43000, 43002>>, <<43824, 43866>>, <<43868, 43880>>, <<43888, 43967>>,
    <<64256, 64262>>, <<64275, 64279>>, <<65313, 65338>>, <<65345, 65370>>, <<66560, 66639>>, <<66736, 66771>>,
    <<66776, 66811>>, <<66928, 66938>>, <<66940, 66954>>, <<66956, 66962>>, <<66964, 66965>>, <<66967, 66977>>,
    <<66979, 66993>>, <<66995, 67001>>, <<67003, 67004>>, <<67456, 67456>>, <<67459, 67461>>, <<67463, 67504>>,
    <<67506, 67514>>, <<68736, 68786>>, <<68800, 68850>>, <<71840, 71903>>, <<93760, 93823>>, <<119808, 119892>>,
    <<119894, 119964>>, <<119966, 119967>>, <<119970, 119970>>, <<119973, 119974>>, <<119977, 119980>>, <<119982, 119993>>,
    <<119995, 119995>>, <<119997, 120003>>, <<120005, 120069>>, <<120071, 120074>>, <<120077, 120084>>, <<120086, 120092>>,
    <<120094, 120121>>, <<120123, 120126>>, <<120128, 120132>>, <<120134, 120134>>, <<120138, 120144>>, <<120146, 120485>>,
    <<120488, 120512>>, <<120514, 120538>>, <<120540, 120570>>, <<120572, 120596>>, <<120598, 120628>>, <<120630, 120654>>,
    <<120656, 120686>>, <<120688, 120712>>, <<120714, 120744>>, <<120746, 120770>>, <<120772, 120779>>, <<122624, 122633>>,
    <<122635, 122654>>, <<125184, 125251>>, <<127280, 127305>>, <<127312, 127337>>, <<127344, 127369>> }

\* the case-ignorable characters, as ranges <<first, last>>
CaseIgnorableRanges == {
    <<39, 39>>, <<46, 46>>, <<58, 58>>, <<94, 94>>, <<96, 96>>, <<168, 168>>,
    <<173, 173>>, <<175, 175>>, <<180, 180>>, <<183, 184>>, <<688, 879>>, <<884, 885>>,
    <<890, 890>>, <<900, 901>>, <<903, 903>>, <<1155, 1161>>, <<1369, 1369>>, <<1375, 1375>>,
    <<1425, 1469>>, <<1471, 1471>>, <<1473, 1474>>, <<1476, 1477>>, <<1479, 1479>>, <<1524, 1524>>,
    <<1536, 1541>>, <<1552, 1562>>, <<1564, 1564>>, <<1600, 1600>>, <<1611, 1631>>, <<1648, 1648>>,
    <<1750, 1757>>, <<1759, 1768>>, <<1770, 1773>>, <<1807, 1807>>, <<1809, 1809>>, <<1840, 1866>>,
    <<1958, 1968>>, <<2027, 2037>>, <<2042, 2042>>, <<2045, 2045>>, <<2070, 2093>>, <<2137, 2139>>,
    <<2184, 2184>>, <<2192, 2193>>, <<2200, 2207>>, <<2249, 2306>>, <<2362, 2362>>, <<2364, 2364>>,
    <<2369, 2376>>, <<2381, 2381>>, <<2385, 2391>>, <<2402, 2403>>, <<2417, 2417>>, <<2433, 2433>>,
    <<2492, 2492>>, <<2497, 2500>>, <<2509, 2509>>, <<2530, 2531>>, <<2558, 2558>>, <<2561, 2562>>,
    <<2620, 2620>>, <<2625, 2626>>, <<2631, 2632>>, <<2635, 2637>>, <<2641, 2641>>, <<2672, 2673>>,
    <<2677, 2677>>, <<2689, 2690>>, <<2748, 2748>>, <<2753, 2757>>, <<2759, 2760>>, <<2765, 2765>>,
    <<2786, 2787>>, <<2810, 2815>>, <<2817, 2817>>, <<2876, 2876>>, <<2879, 2879>>, <<2881, 2884>>,
    <<2893, 2893>>, <<2901, 2902>>, <<2914, 2915>>, <<2946, 2946>>, <<3008, 3008>>, <<3021, 3021>>,
    <<3072, 3072>>, <<3076, 3076>>, <<3132, 3132>>, <<3134, 3136>>, <<3142, 3144>>, <<3146, 3149>>,
    <<3157, 3158>>, <<3170, 3171>>, <<3201, 3201>>, <<3260, 3260>>, <<3263, 3263>>, <<3270, 3270>>,
    <<3276, 3277>>, <<3298, 3299>>, <<3328, 3329>>, <<3387, 3388>>, <<3393, 3396>>, <<3405, 3405>>,
    <<3426, 3427>>, <<3457, 3457>>, <<3530, 3530>>, <<3538, 3540>>, <<3542, 3542>>, <<3633, 3633>>,
    <<3636, 3642>>, <<3654, 3662>>, <<3761, 3761>>, <<3764, 3772>>, <<3782, 3782>>, <<3784, 3789>>,
    <<3864, 3865>>, <<3893, 3893>>, <<3895, 3895>>, <<3897, 3897>>, <<3953, 3966>>, <<3968, 3972>>,
    <<3974, 3975>>, <<3981, 3991>>, <<3993, 4028>>, <<4038, 4038>>, <<4141, 4144>>, <<4146, 4151>>,
    <<4153, 4154>>, <<4157, 4158>>, <<4184, 4185>>, <<4190, 4192>>, <<4209, 4212>>, <<4226, 4226>>,
    <<4229, 4230>>, <<4237, 4237>>, <<4253, 4253>>, <<4348, 4348>>, <<4957, 4959>>, <<5906, 5908>>,
    <<5938, 5939>>, <<5970, 5971>>, <<6002, 6003>>, <<6068, 6069>>, <<6071, 6077>>, <<6086, 6086>>,
    <<6089, 6099>>, <<6103, 6103>>, <<6109, 6109>>, <<6155, 6159>>, <<6211, 6211>>, <<6277, 6278>>,
    <<6313, 6313>>, <<6432, 6434>>, <<6439, 6440>>, <<6450, 6450>>, <<6457, 6459>>, <<6679, 6680>>,
    <<6683, 6683>>, <<6742, 6742>>, <<6744, 6750>>, <<6752, 6752>>, <<6754, 6754>>, <<6757, 6764>>,
    <<6771, 6780>>, <<6783, 6783>>, <<6823, 6823>>, <<6832, 6862>>, <<6912, 6915>>, <<6964, 6964>>,
    <<6966, 6970>>, <<6972, 6972>>, <<6978, 6978>>, <<7019, 7027>>, <<7040, 7041>>, <<7074, 7077>>,
    <<7080, 7081>>, <<7083, 7085>>, <<7142, 7142>>, <<7144, 7145>>, <<7149, 7149>>, <<7151, 7153>>,
    <<7212, 7219>>, <<7222, 7223>>, <<7288, 7293>>, <<7376, 7378>>, <<7380, 7392>>, <<7394, 7400>>,
    <<7405, 7405>>, <<7412, 7412>>, <<7416, 7417>>, <<7468, 7530>>, <<7544, 7544>>, <<7579, 7679>>,
    <<8125, 8125>>, <<8127, 8129>>, <<8141, 8143>>, <<8157, 8159>>, <<8173, 8175>>, <<8189, 8190>>,
    <<8203, 8207>>, <<8216, 8217>>, <<8228, 8228>>, <<8231, 8231>>, <<8234, 8238>>, <<8288, 8292>>,
    <<8294, 8303>>, <<8305, 8305>>, <<8319, 8319>>, <<8336, 8348>>, <<8400, 8432>>, <<11388, 11389>>,
    <<11503, 11505>>, <<11631, 11631>>, <<11647, 11647>>, <<11744, 11775>>, <<11823, 11823>>, <<12293, 12293>>,
    <<12330, 12333>>, <<12337, 12341>>, <<12347, 12347>>, <<12441, 12446>>, <<12540, 12542>>, <<40981, 40981>>,
    <<42232, 42237>>, <<42508, 42508>>, <<42607, 42610>>, <<42612, 42621>>, <<42623, 42623>>, <<42652, 42655>>,
    <<42736, 42737>>, <<42752, 42785>>, <<42864, 42864>>, <<42888, 42890>>, <<42994, 42996>>, <<43000, 43001>>,
    <<43010, 43010>>, <<43014, 43014>>, <<43019, 43019>>, <<43045, 43046>>, <<43052, 43052>>, <<43204, 43205>>,
    <<43232, 43249>>, <<43263, 43263>>, <<43302, 43309>>, <<43335, 43345>>, <<43392, 43394>>, <<43443, 43443>>,
    <<43446, 43449>>, <<43452, 43453>>, <<43471, 43471>>, <<43493, 43494>>, <<43561, 43566>>, <<43569, 43570>>,
    <<43573, 43574>>, <<43587, 43587>>, <<43596, 43596>>, <<43632, 43632>>, <<43644, 43644>>, <<43696, 43696>>,
    <<43698, 43700>>, <<43703, 43704>>, <<43710, 43711>>, <<43713, 43713>>, <<43741, 43741>>, <<43756, 43757>>,
    <<43763, 43764>>, <<43766, 43766>>, <<43867, 43871>>, <<43881, 43883>>, <<44005, 44005>>, <<44008, 44008>>,
    <<44013, 44013>>, <<64286, 64286>>, <<64434, 64450>>, <<65024, 65039>>, <<65043, 65043>>, <<65056, 65071>>,
    <<65106, 65106>>, <<65109, 65109>>, <<65279, 65279>>, <<65287, 65287>>, <<65294, 65294>>, <<65306, 65306>>,
    <<65342, 65342>>, <<65344, 65344>>, <<65392, 65392>>, <<65438, 65439>>, <<65507, 65507>>, <<65529, 65531>>,
    <<66045, 66045>>, <<66272, 66272>>, <<66422, 66426>>, <<67456, 67461>>, <<67463, 67504>>, <<67506, 67514>>,
    <<68097, 68099>>, <<68101, 68102>>, <<68108, 68111>>, <<68152, 68154>>, <<68159, 68159>>, <<68325, 68326>>,
    <<68900, 68903>>, <<69291, 69292>>, <<69446, 69456>>, <<69506, 69509>>, <<69633, 69633>>, <<69688, 69702>>,
    <<69744, 69744>>, <<69747, 69748>>, <<69759, 69761>>, <<69811, 69814>>, <<69817, 69818>>, <<69821, 69821>>,
    <<69826, 69826>>, <<69837, 69837>>, <<69888, 69890>>, <<69927, 69931>>, <<69933, 69940>>, <<70003, 70003>>,
    <<70016, 70017>>, <<70070, 70078>>, <<70089, 70092>>, <<70095, 70095>>, <<70191, 70193>>, <<70196, 70196>>,
    <<70198, 70199>>, <<70206, 70206>>, <<70367, 70367>>, <<70371, 70378>>, <<70400, 70401>>, <<70459, 70460>>,
    <<70464, 70464>>, <<70502, 70508>>, <<70512, 70516>>, <<70712, 70719>>, <<70722, 70724>>, <<70726, 70726>>,
    <<70750, 70750>>, <<70835, 70840>>, <<70842, 70842>>, <<70847, 70848>>, <<70850, 70851>>, <<71090, 71093>>,
    <<71100, 71101>>, <<71103, 71104>>, <<71132, 71133>>, <<71219, 71226>>, <<71229, 71229>>, <<71231, 71232>>,
    <<71339, 71339>>, <<71341, 71341>>, <<71344, 71349>>, <<71351, 71351>>, <<71453, 71455>>, <<71458, 71461>>,
    <<71463, 71467>>, <<71727, 71735>>, <<71737, 71738>>, <<71995, 71996>>, <<71998, 71998>>, <<72003, 72003>>,
    <<72148, 72151>>, <<72154, 72155>>, <<72160, 72160>>, <<72193, 72202>>, <<72243, 72248>>, <<72251, 72254>>,
    <<72263, 72263>>, <<72273, 72278>>, <<72281, 72283>>, <<72330, 72342>>, <<72344, 72345>>, <<72752, 72758>>,
    <<72760, 72765>>, <<72767, 72767>>, <<72850, 72871>>, <<72874, 72880>>, <<72882, 72883>>, <<72885, 72886>>,
    <<73009, 73014>>, <<73018, 73018>>, <<73020, 73021>>, <<73023, 73029>>, <<73031, 73031>>, <<73104, 73105>>,
    <<73109, 73109>>, <<73111, 73111>>, <<73459, 73460>>, <<78896, 78904>>, <<92912, 92916>>, <<92976, 92982>>,
    <<92992, 92995>>, <<94031, 94031>>, <<94095, 94111>>, <<94176, 94177>>, <<94179, 94180>>, <<110576, 110579>>,
    <<110581, 110587>>, <<110589, 110590>>, <<113821, 113822>>, <<113824, 113827>>, <<118528, 118573>>, <<118576, 118598>>,
    <<119143, 119145>>, <<119155, 119170>>, <<119173, 119179>>, <<119210, 119213>>, <<119362, 119364>>, <<121344, 121398>>,
    <<121403, 121452>>, <<121461, 121461>>, <<121476, 121476>>, <<121499, 121503>>, <<121505, 121519>>, <<122880, 122886>>,
    <<122888, 122904>>, <<122907, 122913>>, <<122915, 122916>>, <<122918, 122922>>, <<123184, 123197>>, <<123566, 123566>>,
    <<123628, 123631>>, <<125136, 125142>>, <<125252, 125259>>, <<127995, 127999>>, <<917505, 917505>>, <<917536, 917631>>,
    <<917760, 917999>> }

InRuns(runs, c) == \E r \in runs : r[1] <= c /\ c <= r[2] /\ (c - r[1]) % r[3] = 0

RunOf(runs, c) == CHOOSE r \in runs : r[1] <= c /\ c <= r[2] /\ (c - r[1]) % r[3] = 0

InRanges(ranges, c) == \E r \in ranges : r[1] <= c /\ c <= r[2]

IsCased(c) == InRanges(CasedRanges, c)

IsCaseIgnorable(c) == InRanges(CaseIgnorableRanges, c)

\* str.lower / ntpath.normcase on one character that is not a capital sigma:
\* the text it becomes (U+0130 becomes two characters); A to Z are 65 to 90
Lower(c) ==
    IF c < 128 THEN (IF 65 <= c /\ c <= 90 THEN <<c + 32>> ELSE <<c>>)
    ELSE IF c = 304 THEN <<105, 775>>
    ELSE IF InRuns(LowerRuns, c) THEN <<c + RunOf(LowerRuns, c)[4]>>
    ELSE <<c>>

\* str.upper on one character: the text it becomes; a to z are 97 to 122
Upper(c) ==
    IF c < 128 THEN (IF 97 <= c /\ c <= 122 THEN <<c - 32>> ELSE <<c>>)
    ELSE IF \E p \in UpperSpecial : p[1] = c
    THEN (CHOOSE p \in UpperSpecial : p[1] = c)[2]
    ELSE IF InRuns(UpperRuns, c) THEN <<c + RunOf(UpperRuns, c)[4]>>
    ELSE <<c>>

\* the capital sigma s[i] ends a word: the nearest character before it that
\* is not case-ignorable is cased, and the nearest one after it is not
FinalSigma(s, i) ==
    /\ \E j \in 1..(i - 1) :
          /\ ~IsCaseIgnorable(s[j]) /\ IsCased(s[j])
          /\ \A k \in (j + 1)..(i - 1) : IsCaseIgnorable(s[k])
    /\ ~\E j \in (i + 1)..Len(s) :
          /\ ~IsCaseIgnorable(s[j]) /\ IsCased(s[j])
          /\ \A k \in (i + 1)..(j - 1) : IsCaseIgnorable(s[k])

\* str.lower
LowerStr(s) ==
    Flatten([i \in 1..Len(s) |->
                IF s[i] = 931
                THEN (IF FinalSigma(s, i) THEN <<962>> ELSE <<963>>)
                ELSE Lower(s[i])])

\* str.upper
UpperStr(s) == Flatten([i \in 1..Len(s) |-> Upper(s[i])])

\* the whitespace of str.strip() and str.split()
Space == {9, 10, 11, 12, 13, 28, 29, 30, 31, 32, 133, 160, 5760}
           \cup (8192..8202) \cup {8232, 8233, 8239, 8287, 12288}

IsSpace(c) == c \in Space

EndsWith(s, suf) ==
    /\ Len(s) >= Len(suf)
    /\ SubSeq(s, Len(s) - Len(suf) + 1, Len(s)) = suf

IsPrefix(p, q) == Len(p) <= Len(q) /\ SubSeq(q, 1, Len(p)) = p

RECURSIVE LStrip(_)
LStrip(s) ==
    IF s # <<>> /\ IsSpace(Head(s)) THEN LStrip(Tail(s)) ELSE s

RECURSIVE RStrip(_)
RStrip(s) ==
    IF s # <<>> /\ IsSpace(s[Len(s)]) THEN RStrip(SubSeq(s, 1, Len(s) - 1)) ELSE s

\* line.strip()
Strip(s) == RStrip(LStrip(s))

\* str.split() with no separator: runs of whitespace separate the tokens and
\* no empty token is produced. cur is the token being read, acc the tokens read.
RECURSIVE SplitFrom(_, _, _)
SplitFrom(s, cur, acc) ==
    IF s = <<>>
    THEN IF cur = <<>> THEN acc ELSE Append(acc, cur)
    ELSE IF IsSpace(Head(s))
         THEN SplitFrom(Tail(s), <<>>, IF cur = <<>> THEN acc ELSE Append(acc, cur))
         ELSE SplitFrom(Tail(s), Append(cur, Head(s)), acc)

Split(s) == SplitFrom(s, <<>>, <<>>)

(***************************************************************************)
(* int() and float() on a string.  The string is first brought to ASCII:   *)
(* a character from U+007F on becomes a blank when it is whitespace, its   *)
(* ASCII digit when it is a decimal digit of any script, and '?' otherwise.*)
(* Then the ASCII whitespace around it is dropped, and what is left is an  *)
(* optional sign and digits with single underscores between digits; for    *)
(* float() also a decimal point, an exponent, and inf, infinity and nan in *)
(* any case.  int() refuses more than 4300 digits.  A float is kept as its *)
(* decimal digits, and the comparisons with 0 and 1 are those of the       *)
(* double float() rounds to.                                               *)
(***************************************************************************)
\* the digits zero of the decimal digits of every script; the digits one to
\* nine follow each of them
DecimalZeros == {
    48, 1632, 1776, 1984, 2406, 2534, 2662, 2790, 2918, 3046,
    3174, 3302, 3430, 3558, 3664, 3792, 3872, 4160, 4240, 6112,
    6160, 6470, 6608, 6784, 6800, 6992, 7088, 7232, 7248, 42528,
    43216, 43264, 43472, 43504, 43600, 44016, 65296, 66720, 68912, 69734,
    69872, 69942, 70096, 70384, 70736, 70864, 71248, 71360, 71472, 71904,
    72016, 72784, 73040, 73120, 92768, 92864, 93008, 120782, 120792, 120802,
    120812, 120822, 123200, 123632, 125264, 130032 }

IsDecimal(c) == \E z \in DecimalZeros : z <= c /\ c <= z + 9

Decimal(c) == c - (CHOOSE z \in DecimalZeros : z <= c /\ c <= z + 9)

\* one character brought to ASCII; 63 is the question mark
ToAscii(c) ==
    IF c < 127 THEN c
    ELSE IF IsSpace(c) THEN BLANK
    ELSE IF IsDecimal(c) THEN ZERO + Decimal(c)
    ELSE 63

\* the ASCII whitespace int() and float() drop around a number
IsNumSpace(c) == c \in {9, 10, 11, 12, 13, 32}

\* the string brought to ASCII, without the whitespace around it
NumStrip(s) ==
    LET a    == [i \in 1..Len(s) |-> ToAscii(s[i])]
        kept == {i \in 1..Len(a) : ~IsNumSpace(a[i])}
    IN  IF kept = {} THEN <<>>
        ELSE SubSeq(a, CHOOSE i \in kept : \A j \in kept : i <= j,
                       CHOOSE i \in kept : \A j \in kept : i >= j)

IsDigit(c) == ZERO <= c /\ c <= ZERO + 9

DigitVal(c) == c - ZERO

\* the number written with the digits ds (values 0 to 9)
RECURSIVE DecVal(_)
DecVal(ds) == IF ds = <<>> THEN 0 ELSE 10 * DecVal(SubSeq(ds, 1, Len(ds) - 1)) + ds[Len(ds)]

HasSign(s) == s # <<>> /\ Head(s) \in {PLUS, MINUS}
Unsigned(s) == IF HasSign(s) THEN Tail(s) ELSE s
IsNeg(s) == s # <<>> /\ Head(s) = MINUS

\* digits, with single underscores between digits
DigitPart(s) ==
    /\ s # <<>>
    /\ IsDigit(s[1])
    /\ IsDigit(s[Len(s)])
    /\ \A i \in 1..Len(s) : IsDigit(s[i]) \/ (s[i] = USCORE /\ IsDigit(s[i + 1]))

\* the values of the digits of s, underscores left out
OnlyDigits(s) == LET ds == SelectSeq(s, IsDigit) IN [i \in 1..Len(ds) |-> DigitVal(ds[i])]

\* the position of the first c in s, 0 when there is none
FirstAt(s, c) ==
    IF \E i \in 1..Len(s) : s[i] = c
    THEN CHOOSE i \in 1..Len(s) : s[i] = c /\ \A j \in 1..(i - 1) : s[j] # c
    ELSE 0

\* ds without its leading zeros
DropZeros(ds) ==
    IF \A i \in 1..Len(ds) : ds[i] = 0
    THEN <<>>
    ELSE SubSeq(ds, CHOOSE i \in 1..Len(ds) :
                       ds[i] # 0 /\ \A j \in 1..(i - 1) : ds[j] = 0, Len(ds))

\* ds without its trailing zeros
DropZerosRight(ds) ==
    IF \A i \in 1..Len(ds) : ds[i] = 0
    THEN <<>>
    ELSE SubSeq(ds, 1, CHOOSE i \in 1..Len(ds) :
                          ds[i] # 0 /\ \A j \in (i + 1)..Len(ds) : ds[j] = 0)

\* sys.get_int_max_str_digits(): the most digits int() converts
MaxStrDigits == 4300

\* int(tok) returns a number rather than raising ValueError
IntOk(tok) ==
    LET body == Unsigned(NumStrip(tok))
    IN  DigitPart(body) /\ Len(OnlyDigits(body)) <= MaxStrDigits

\* the number int(tok) returns
IntVal(tok) ==
    LET s == NumStrip(tok)
        n == DecVal(OnlyDigits(Unsigned(s)))
    IN  IF IsNeg(s) THEN 0 - n ELSE n

\* int(tok): [ok |-> FALSE] stands for ValueError
ParseInt(tok) == IF IntOk(tok) THEN [ok |-> TRUE, val |-> IntVal(tok)] ELSE [ok |-> FALSE]

\* the ASCII capitals as small letters: float() reads its letters in any case
AsciiLower(s) ==
    [i \in 1..Len(s) |-> IF 65 <= s[i] /\ s[i] <= 90 THEN s[i] + 32 ELSE s[i]]

\* the words float() takes for infinity and not-a-number
INF      == Txt(<<"i", "n", "f">>)
INFINITY == Txt(<<"i", "n", "f", "i", "n", "i", "t", "y">>)
NAN      == Txt(<<"n", "a", "n">>)

\* float(tok): [ok |-> FALSE] stands for ValueError; a finite value is
\* (-1)^neg * 0.digits * 10^(lead + e), digits without leading or trailing
\* zeros (empty for zero), e the exponent written with the digits edigits
\* (without leading zeros) and negative when eneg
ParseFloat(tok) ==
    LET s     == AsciiLower(NumStrip(tok))
        body  == Unsigned(s)
        e     == FirstAt(body, LETTER_E)
        mant  == IF e = 0 THEN body ELSE SubSeq(body, 1, e - 1)
        expo  == IF e = 0 THEN <<>> ELSE SubSeq(body, e + 1, Len(body))
        d     == FirstAt(mant, DOT)
        ip    == IF d = 0 THEN mant ELSE SubSeq(mant, 1, d - 1)
        fp    == IF d = 0 THEN <<>> ELSE SubSeq(mant, d + 1, Len(mant))
        all   == OnlyDigits(ip) \o OnlyDigits(fp)
        sig   == DropZerosRight(DropZeros(all))
        other(k) == [ok |-> TRUE, kind |-> k, neg |-> IsNeg(s), digits |-> <<>>,
                     lead |-> 0, eneg |-> FALSE, edigits |-> <<>>]
    IN
    IF body = NAN
    THEN other("nan")
    ELSE IF body = INF \/ body = INFINITY
    THEN other("inf")
    ELSE IF /\ ip = <<>> \/ DigitPart(ip)
            /\ fp = <<>> \/ DigitPart(fp)
            /\ ip # <<>> \/ fp # <<>>
            /\ e = 0 \/ DigitPart(Unsigned(expo))
    THEN [ok |-> TRUE, kind |-> "fin", neg |-> IsNeg(s), digits |-> sig,
          lead |-> Len(OnlyDigits(ip)) - (Len(all) - Len(DropZeros(all))),
          eneg |-> IsNeg(expo),
          edigits |-> DropZeros(OnlyDigits(expo))]
    ELSE [ok |-> FALSE]

\* 1 + 2^-53 is 0.HalfAboveOne * 10^1: a decimal rounds to a double above 1.0
\* exactly when it is greater (the tie goes to 1.0)
HalfAboveOne == <<
    1, 0, 0, 0, 0, 0, 0, 0, 0, 0, 0, 0, 0, 0, 0, 0, 1, 1, 1, 0, 2, 2, 3, 0,
    2, 4, 6, 2, 5, 1, 5, 6, 5, 4, 0, 4, 2, 3, 6, 3, 1, 6, 6, 8, 0, 9, 0, 8,
    2, 0, 3, 1, 2, 5 >>

\* 2^-1075 is 0.HalfSmallest * 10^-323: a decimal rounds to a double other
\* than zero exactly when its magnitude is greater (the tie goes to 0.0)
HalfSmallest == <<
    2, 4, 7, 0, 3, 2, 8, 2, 2, 9, 2, 0, 6, 2, 3, 2, 7, 2, 0, 8, 8, 2, 8, 4,
    3, 9, 6, 4, 3, 4, 1, 1, 0, 6, 8, 6, 1, 8, 2, 5, 2, 9, 9, 0, 1, 3, 0, 7,
    1, 6, 2, 3, 8, 2, 2, 1, 2, 7, 9, 2, 8, 4, 1, 2, 5, 0, 3, 3, 7, 7, 5, 3,
    6, 3, 5, 1, 0, 4, 3, 7, 5, 9, 3, 2, 6, 4, 9, 9, 1, 8, 1, 8, 0, 8, 1, 7,
    9, 9, 6, 1, 8, 9, 8, 9, 8, 2, 8, 2, 3, 4, 7, 7, 2, 2, 8, 5, 8, 8, 6, 5,
    4, 6, 3, 3, 2, 8, 3, 5, 5, 1, 7, 7, 9, 6, 9, 8, 9, 8, 1, 9, 9, 3, 8, 7,
    3, 9, 8, 0, 0, 5, 3, 9, 0, 9, 3, 9, 0, 6, 3, 1, 5, 0, 3, 5, 6, 5, 9, 5,
    1, 5, 5, 7, 0, 2, 2, 6, 3, 9, 2, 2, 9, 0, 8, 5, 8, 3, 9, 2, 4, 4, 9, 1,
    0, 5, 1, 8, 4, 4, 3, 5, 9, 3, 1, 8, 0, 2, 8, 4, 9, 9, 3, 6, 5, 3, 6, 1,
    5, 2, 5, 0, 0, 3, 1, 9, 3, 7, 0, 4, 5, 7, 6, 7, 8, 2, 4, 9, 2, 1, 9, 3,
    6, 5, 6, 2, 3, 6, 6, 9, 8, 6, 3, 6, 5, 8, 4, 8, 0, 7, 5, 7, 0, 0, 1, 5,
    8, 5, 7, 6, 9, 2, 6, 9, 9, 0, 3, 7, 0, 6, 3, 1, 1, 9, 2, 8, 2, 7, 9, 5,
    5, 8, 5, 5, 1, 3, 3, 2, 9, 2, 7, 8, 3, 4, 3, 3, 8, 4, 0, 9, 3, 5, 1, 9,
    7, 8, 0, 1, 5, 5, 3, 1, 2, 4, 6, 5, 9, 7, 2, 6, 3, 5, 7, 9, 5, 7, 4, 6,
    2, 2, 7, 6, 6, 4, 6, 5, 2, 7, 2, 8, 2, 7, 2, 2, 0, 0, 5, 6, 3, 7, 4, 0,
    0, 6, 4, 8, 5, 4, 9, 9, 9, 7, 7, 0, 9, 6, 5, 9, 9, 4, 7, 0, 4, 5, 4, 0,
    2, 0, 8, 2, 8, 1, 6, 6, 2, 2, 6, 2, 3, 7, 8, 5, 7, 3, 9, 3, 4, 5, 0, 7,
    3, 6, 3, 3, 9, 0, 0, 7, 9, 6, 7, 7, 6, 1, 9, 3, 0, 5, 7, 7, 5, 0, 6, 7,
    4, 0, 1, 7, 6, 3, 2, 4, 6, 7, 3, 6, 0, 0, 9, 6, 8, 9, 5, 1, 3, 4, 0, 5,
    3, 5, 5, 3, 7, 4, 5, 8, 5, 1, 6, 6, 6, 1, 1, 3, 4, 2, 2, 3, 7, 6, 6, 6,
    7, 8, 6, 0, 4, 1, 6, 2, 1, 5, 9, 6, 8, 0, 4, 6, 1, 9, 1, 4, 4, 6, 7, 2,
    9, 1, 8, 4, 0, 3, 0, 0, 5, 3, 0, 0, 5, 7, 5, 3, 0, 8, 4, 9, 0, 4, 8, 7,
    6, 5, 3, 9, 1, 7, 1, 1, 3, 8, 6, 5, 9, 1, 6, 4, 6, 2, 3, 9, 5, 2, 4, 9,
    1, 2, 6, 2, 3, 6, 5, 3, 8, 8, 1, 8, 7, 9, 6, 3, 6, 2, 3, 9, 3, 7, 3, 2,
    8, 0, 4, 2, 3, 8, 9, 1, 0, 1, 8, 6, 7, 2, 3, 4, 8, 4, 9, 7, 6, 6, 8, 2,
    3, 5, 0, 8, 9, 8, 6, 3, 3, 8, 8, 5, 8, 7, 9, 2, 5, 6, 2, 8, 3, 0, 2, 7,
    5, 5, 9, 9, 5, 6, 5, 7, 5, 2, 4, 4, 5, 5, 5, 0, 7, 2, 5, 5, 1, 8, 9, 3,
    1, 3, 6, 9, 0, 8, 3, 6, 2, 5, 4, 7, 7, 9, 1, 8, 6, 9, 4, 8, 6, 6, 7, 9,
    9, 4, 9, 6, 8, 3, 2, 4, 0, 4, 9, 7, 0, 5, 8, 2, 1, 0, 2, 8, 5, 1, 3, 1,
    8, 5, 4, 5, 1, 3, 9, 6, 2, 1, 3, 8, 3, 7, 7, 2, 2, 8, 2, 6, 1, 4, 5, 4,
    3, 7, 6, 9, 3, 4, 1, 2, 5, 3, 2, 0, 9, 8, 5, 9, 1, 3, 2, 7, 6, 6, 7, 2,
    3, 6, 3, 2, 8, 1, 2, 5 >>

DigitAt(ds, i) == IF i <= Len(ds) THEN ds[i] ELSE 0

\* 0.a > 0.b
DigitsGreater(a, b) ==
    \E i \in 1..(Len(a) + Len(b)) :
        /\ DigitAt(a, i) > DigitAt(b, i)
        /\ \A j \in 1..(i - 1) : DigitAt(a, j) = DigitAt(b, j)

\* the exponent of c as a number
Exponent(c) == IF c.eneg THEN 0 - DecVal(c.edigits) ELSE DecVal(c.edigits)

\* an exponent of more than 9 digits is further from zero than k
Beyond(c, k) == Len(c.edigits) > 9 /\ -1000000000 < k /\ k < 1000000000

\* the exponent of c is greater than k, is k
ExponentAbove(c, k) == IF Beyond(c, k) THEN ~c.eneg ELSE Exponent(c) > k

ExponentIs(c, k) == IF Beyond(c, k) THEN FALSE ELSE Exponent(c) = k

\* the magnitude of a finite float is greater than 0.ds * 10^p
Above(c, ds, p) ==
    /\ c.digits # <<>>
    /\ \/ ExponentAbove(c, p - c.lead)
       \/ ExponentIs(c, p - c.lead) /\ DigitsGreater(c.digits, ds)

\* c < 0 and c > 1 on a parsed float (every comparison with nan is false)
LtZero(c) ==
    CASE c.kind = "fin" -> c.neg /\ Above(c, HalfSmallest, 0 - 323)
      [] c.kind = "inf" -> c.neg
      [] c.kind = "nan" -> FALSE

GtOne(c) ==
    CASE c.kind = "fin" -> ~c.neg /\ Above(c, HalfAboveOne, 1)
      [] c.kind = "inf" -> ~c.neg
      [] c.kind = "nan" -> FALSE

(***************************************************************************)
(* Paths.  A path is the sequence of its segments below DATASET_ROOT (none *)
(* of whose own segments is named "images"); a segment is a string of      *)
(* characters.  Name, Suffix and WithSuffix are pathlib's name, suffix and *)
(* with_suffix.                                                            *)
(***************************************************************************)
TRAIN  == Txt(<<"t", "r", "a", "i", "n">>)
TEST   == Txt(<<"t", "e", "s", "t">>)
VAL    == Txt(<<"v", "a", "l">>)
IMAGES == Txt(<<"i", "m", "a", "g", "e", "s">>)
LABELS == Txt(<<"l", "a", "b", "e", "l", "s">>)
TXT    == Txt(<<".", "t", "x", "t">>)

\* IMG_FORMATS, in the order check_integrity globs them
IMG_FORMATS == << Txt(<<".", "j", "p", "g">>), Txt(<<".", "j", "p", "e", "g">>),
                  Txt(<<".", "p", "n", "g">>), Txt(<<".", "b", "m", "p">>) >>

\* the three calls of main, in order
SplitOrder == <<TRAIN, TEST, VAL>>

Name(path) == path[Len(path)]

LastDot(name) ==
    IF \E i \in 1..Len(name) : name[i] = DOT
    THEN CHOOSE i \in 1..Len(name) :
            name[i] = DOT /\ \A j \in (i + 1)..Len(name) : name[j] # DOT
    ELSE 0

\* PurePath.suffix: from the last dot, unless the name starts or ends with it
Suffix(name) ==
    LET i == LastDot(name) IN
    IF 1 < i /\ i < Len(name) THEN SubSeq(name, i, Len(name)) ELSE <<>>

\* PurePath.with_suffix
WithSuffix(path, suffix) ==
    LET name == Name(path)
        stem == SubSeq(name, 1, Len(name) - Len(Suffix(name)))
    IN  SubSeq(path, 1, Len(path) - 1) \o <<stem \o suffix>>

(***************************************************************************)
(* The file system.  disk is a set of entries [path, node]; a directory    *)
(* exists when it is an entry or lies above one.  A file's node says       *)
(* whether PIL verifies it as an image, whether open()/readlines()         *)
(* succeeds on it, and the lines readlines() returns.                      *)
(***************************************************************************)
VARIABLES
    os_name,      \* "posix" or "nt": decides os.path.normcase inside glob
    disk,         \* the directory tree under DATASET_ROOT, unchanged by the run
    calls,        \* folder names still to be passed to check_integrity
    prints,       \* print_report calls still to be made by main
    returned,     \* what the check_integrity calls made so far returned
    log,          \* the reports print_report has emitted
    pc,           \* "main", "loop", "label", "lines"
    images_list,  \* check_integrity: the paths the globs returned
    visited,      \* check_integrity: the paths the for loop has been through
    stats,        \* check_integrity: the report being built
    label_path,   \* _process_label: the annotation file
    lines,        \* _process_label: the lines still to be processed
    handed        \* history: images of this call handed to _process_label

vars == <<os_name, disk, calls, prints, returned, log, pc, images_list,
          visited, stats, label_path, lines, handed>>

None == [tag |-> "None"]

DirNode == [kind |-> "dir", image_ok |-> FALSE, readable |-> FALSE, lines |-> <<>>]
ImageNode(ok) == [kind |-> "file", image_ok |-> ok, readable |-> TRUE, lines |-> <<>>]
TextNode(ls) == [kind |-> "file", image_ok |-> FALSE, readable |-> TRUE, lines |-> ls]
UnreadableNode == [kind |-> "file", image_ok |-> FALSE, readable |-> FALSE, lines |-> <<>>]

Paths(d) == {e.path : e \in d}
NodeAt(d, p) == (CHOOSE e \in d : e.path = p).node

\* os.path.exists / Path.exists
Exists(d, p) == \E e \in d : IsPrefix(p, e.path)

IsDir(d, p) ==
    \/ \E e \in d : e.path = p /\ e.node.kind = "dir"
    \/ \E e \in d : IsPrefix(p, e.path) /\ Len(e.path) > Len(p)

\* Image.open(p).verify() returns without raising
ImageOK(d, p) ==
    /\ p \in Paths(d)
    /\ NodeAt(d, p).kind = "file"
    /\ NodeAt(d, p).image_ok

\* open(p, 'r') and readlines() succeed
CanRead(d, p) ==
    /\ p \in Paths(d)
    /\ ~IsDir(d, p)
    /\ NodeAt(d, p).readable

ReadLines(d, p) == NodeAt(d, p).lines

(***************************************************************************)
(* glob.glob(os.path.join(folder_path, '**', '*' + ext), recursive=True).  *)
(* '**' walks folder_path and the directories below it, leaving out hidden *)
(* ones; '*' + ext is matched with fnmatch on the names in each directory, *)
(* files and directories alike: both sides go through os.path.normcase,    *)
(* and a name that starts with a dot is not matched by a pattern that      *)
(* starts with '*'.                                                        *)
(***************************************************************************)
\* posixpath.normcase leaves the name alone; ntpath.normcase turns slashes
\* into backslashes and lower-cases
NormCase(s) ==
    IF os_name = "nt"
    THEN LowerStr([i \in 1..Len(s) |-> IF s[i] = SLASH THEN BSLASH ELSE s[i]])
    ELSE s

IsHidden(name) == name # <<>> /\ Head(name) = DOT

FnMatchStar(name, ext) == EndsWith(NormCase(name), NormCase(ext))

\* every path that exists below folder_path, directories included
Below(d, folder_path) ==
    UNION {{SubSeq(e.path, 1, n) : n \in (Len(folder_path) + 1)..Len(e.path)} :
             e \in {x \in d : IsPrefix(folder_path, x.path)}}

Glob(d, folder_path, ext) ==
    {p \in Below(d, folder_path) :
        /\ \A i \in (Len(folder_path) + 1)..Len(p) : ~IsHidden(p[i])
        /\ FnMatchStar(Name(p), ext)}


(***************************************************************************)
(* _find_label_file                                                        *)
(***************************************************************************)
Index(seq, x) == CHOOSE i \in 1..Len(seq) : seq[i] = x /\ \A j \in 1..(i - 1) : seq[j] # x

InSeq(seq, x) == \E i \in 1..Len(seq) : seq[i] = x

\* Case 1: the .txt beside the image
SameDirLabel(img_path) == WithSuffix(img_path, TXT)

\* Case 2: the first "images" segment replaced by "labels"
ParallelLabel(img_path) ==
    WithSuffix([img_path EXCEPT ![Index(img_path, IMAGES)] = LABELS], TXT)

\* FindLabelFile with the two cases tried in the other order
FindLabelFileParallelFirst(d, img_path) ==
    IF InSeq(img_path, IMAGES) /\ Exists(d, ParallelLabel(img_path))
    THEN ParallelLabel(img_path)
    ELSE IF Exists(d, SameDirLabel(img_path))
         THEN SameDirLabel(img_path)
         ELSE None

FindLabelFile(d, img_path) ==
    IF Exists(d, SameDirLabel(img_path))
    THEN SameDirLabel(img_path)
    ELSE IF InSeq(img_path, IMAGES) /\ Exists(d, ParallelLabel(img_path))
         THEN ParallelLabel(img_path)
         ELSE None

(***************************************************************************)
(* The report (stats) and _process_label's work on one line.               *)
(***************************************************************************)
NewStats(n) ==
    [total_images |-> n, corrupt_images |-> 0, missing_labels |-> 0,
     empty_labels |-> 0, valid_objects |-> 0, class_counts |-> <<>>,
     errors |-> <<>>]

\* stats['class_counts'].get(cls_id, 0)
Get(counts, c) == IF c \in DOMAIN counts THEN counts[c] ELSE 0

\* Put that replaces the dictionary by the one entry
PutOverwrite(counts, c, v) == [k \in {c} |-> v]

\* stats['class_counts'][cls_id] = v
Put(counts, c, v) == [k \in DOMAIN counts \cup {c} |-> IF k = c THEN v ELSE counts[k]]

CorruptError(img_path) == [kind |-> "Corrupt image", name |-> Name(img_path)]
CoordError(lp)         == [kind |-> "Invalid coordinates", name |-> Name(lp)]
ParseError(lp)         == [kind |-> "Parse error", name |-> Name(lp)]
ReadError(lp)          == [kind |-> "Error reading", name |-> Name(lp)]

\* any(c < 0 or c > 1 for c in coords)
AnyOutOfRange(coords) == \E i \in 1..Len(coords) : LtZero(coords[i]) \/ GtOne(coords[i])

\* ProcessLine that rejects a line with a coordinate out of range
ProcessLineRejectOutOfRange(st, lp, line) ==
    LET parts  == Split(Strip(line))
        cls    == ParseInt(parts[1])
        floats == [i \in 1..4 |-> ParseFloat(parts[i + 1])]
    IN
    IF Len(parts) < 5
    THEN st
    ELSE IF ~cls.ok \/ \E i \in 1..4 : ~floats[i].ok
    THEN [st EXCEPT !.errors = Append(@, ParseError(lp))]
    ELSE IF AnyOutOfRange(floats)
    THEN [st EXCEPT !.errors = Append(@, CoordError(lp))]
    ELSE [st EXCEPT
            !.class_counts = Put(@, cls.val, Get(@, cls.val) + 1),
            !.valid_objects = @ + 1]

\* ProcessLine that reports a line of fewer than 5 tokens as a parse error
ProcessLineShortIsError(st, lp, line) ==
    LET parts  == Split(Strip(line))
        cls    == ParseInt(parts[1])
        floats == [i \in 1..4 |-> ParseFloat(parts[i + 1])]
    IN
    IF Len(parts) = 0
    THEN st
    ELSE IF Len(parts) < 5 \/ ~cls.ok \/ \E i \in 1..4 : ~floats[i].ok
    THEN [st EXCEPT !.errors = Append(@, ParseError(lp))]
    ELSE [st EXCEPT
            !.errors = IF AnyOutOfRange(floats) THEN Append(@, CoordError(lp)) ELSE @,
            !.class_counts = Put(@, cls.val, Get(@, cls.val) + 1),
            !.valid_objects = @ + 1]

\* ProcessLine that counts the class before the coordinates are parsed
ProcessLinePartialUpdate(st, lp, line) ==
    LET parts  == Split(Strip(line))
        cls    == ParseInt(parts[1])
        floats == [i \in 1..4 |-> ParseFloat(parts[i + 1])]
    IN
    IF Len(parts) < 5
    THEN st
    ELSE IF ~cls.ok
    THEN [st EXCEPT !.errors = Append(@, ParseError(lp))]
    ELSE IF \E i \in 1..4 : ~floats[i].ok
    THEN [st EXCEPT !.errors = Append(@, ParseError(lp)),
                    !.class_counts = Put(@, cls.val, Get(@, cls.val) + 1)]
    ELSE [st EXCEPT
            !.errors = IF AnyOutOfRange(floats) THEN Append(@, CoordError(lp)) ELSE @,
            !.class_counts = Put(@, cls.val, Get(@, cls.val) + 1),
            !.valid_objects = @ + 1]

\* the body of "for line in lines" for one line
ProcessLine(st, lp, line) ==
    LET parts  == Split(Strip(line))
        cls    == ParseInt(parts[1])
        coords == [i \in 1..4 |-> ParseFloat(parts[i + 1])]
    IN
    IF Len(parts) < 5
    THEN st
    ELSE IF ~cls.ok \/ \E i \in 1..4 : ~coords[i].ok
    THEN [st EXCEPT !.errors = Append(@, ParseError(lp))]
    ELSE [st EXCEPT
            !.errors = IF AnyOutOfRange(coords) THEN Append(@, CoordError(lp)) ELSE @,
            !.class_counts = Put(@, cls.val, Get(@, cls.val) + 1),
            !.valid_objects = @ + 1]

\* OpenLabel that also reports the file without lines as an error
OpenLabelEmptyIsError(d, st, lp) ==
    IF ~CanRead(d, lp)
    THEN [stats |-> [st EXCEPT !.errors = Append(@, ReadError(lp))], lines |-> <<>>]
    ELSE IF ReadLines(d, lp) = <<>>
    THEN [stats |-> [st EXCEPT !.empty_labels = @ + 1,
                               !.errors = Append(@, ReadError(lp))], lines |-> <<>>]
    ELSE [stats |-> st, lines |-> ReadLines(d, lp)]

\* _process_label up to the line loop: the read fails, or the file has no
\* line, or the lines are there to be gone through
OpenLabel(d, st, lp) ==
    IF ~CanRead(d, lp)
    THEN [stats |-> [st EXCEPT !.errors = Append(@, ReadError(lp))], lines |-> <<>>]
    ELSE IF ReadLines(d, lp) = <<>>
    THEN [stats |-> [st EXCEPT !.empty_labels = @ + 1], lines |-> <<>>]
    ELSE [stats |-> st, lines |-> ReadLines(d, lp)]

(***************************************************************************)
(* check_integrity's work on one image.                                    *)
(***************************************************************************)
\* CheckImage without the continue after a corrupt image
CheckImageNoContinue(d, st, img_path) ==
    LET st1 == IF ~ImageOK(d, img_path)
               THEN [st EXCEPT !.corrupt_images = @ + 1,
                               !.errors = Append(@, CorruptError(img_path))]
               ELSE st
        lp  == FindLabelFile(d, img_path)
    IN  IF lp # None /\ Exists(d, lp)
        THEN [stats |-> st1, label |-> lp]
        ELSE [stats |-> [st1 EXCEPT !.missing_labels = @ + 1], label |-> None]

\* the body of "for img_path in images_list" up to the call of
\* _process_label: the report after it, and the label file to process if any
CheckImage(d, st, img_path) ==
    IF ~ImageOK(d, img_path)
    THEN [stats |-> [st EXCEPT !.corrupt_images = @ + 1,
                               !.errors = Append(@, CorruptError(img_path))],
          label |-> None]
    ELSE LET lp == FindLabelFile(d, img_path) IN
         IF lp # None /\ Exists(d, lp)
         THEN [stats |-> st, label |-> lp]
         ELSE [stats |-> [st EXCEPT !.missing_labels = @ + 1], label |-> None]

\* images_list.extend(glob(...)) for each ext: the list's length
GlobCount(d, folder_path) ==
    LET n(k) == Cardinality(Glob(d, folder_path, IMG_FORMATS[k]))
    IN  n(1) + n(2) + n(3) + n(4)

GlobAll(d, folder_path) ==
    UNION {Glob(d, folder_path, IMG_FORMATS[k]) : k \in 1..Len(IMG_FORMATS)}

\* the list is the four glob results one after the other, each in the
\* directory's own order: the loop's next image is any image not yet visited
\* of the first extension that still has one
NextImages ==
    LET left(k) == Glob(disk, <<Head(calls)>>, IMG_FORMATS[k]) \ visited
        first   == CHOOSE k \in 1..Len(IMG_FORMATS) :
                      left(k) # {} /\ \A j \in 1..(k - 1) : left(j) = {}
    IN  IF images_list \ visited = {} THEN {} ELSE left(first)


(***************************************************************************)
(* The inputs: annotation lines, annotation files, directory trees.        *)
(***************************************************************************)
SP == <<BLANK>>
NL == <<10>>

\* the tokens the annotation lines are written with
Tok ==
    [t0    |-> Txt(<<"0">>),
     t1    |-> Txt(<<"1">>),
     t05   |-> Txt(<<"0", ".", "5">>),
     t02   |-> Txt(<<"0", ".", "2">>),
     t01   |-> Txt(<<"0", ".", "1">>),
     t005  |-> Txt(<<"0", ".", "0", "5">>),
     t10   |-> Txt(<<"1", ".", "0">>),
     t15   |-> Txt(<<"1", ".", "5">>),
     tm01  |-> Txt(<<"-", "0", ".", "1">>),
     tnan  |-> Txt(<<"n", "a", "n">>),
     tinf  |-> Txt(<<"i", "n", "f">>),
     tabc  |-> Txt(<<"a", "b", "c">>),
     tx    |-> Txt(<<"x">>),
     t1_0  |-> Txt(<<"1", "_", "0">>),
     t5em1 |-> Txt(<<"5", "e", "-", "1">>),
     t1E0  |-> Txt(<<"1", "E", "0">>),
     tp5   |-> Txt(<<".", "5">>),
     ttiny |-> Txt(<<"-", "1", "e", "-", "4", "0", "0">>),
     t1e1  |-> Txt(<<"1", "e", "1">>)]

\* the tokens separated by one space, with the line's newline
RECURSIVE Words(_)
Words(toks) ==
    IF Len(toks) = 1 THEN Head(toks) \o NL ELSE Head(toks) \o SP \o Words(Tail(toks))

LGood0    == Words(<<Tok.t0, Tok.t05, Tok.t05, Tok.t02, Tok.t02>>)
LGood1    == Words(<<Tok.t1, Tok.t01, Tok.t01, Tok.t005, Tok.t005>>)
\* coordinates exactly 0 and exactly 1, tabs and repeated blanks, no newline
LEdge     == SP \o Tok.t1 \o <<9>> \o Tok.t0 \o SP \o SP \o Tok.t1 \o SP \o Tok.t10 \o SP \o Tok.t0 \o SP
\* one coordinate out of range: a line of the enumerated tree's a.txt
LOor      == Words(<<Tok.t0, Tok.t05, Tok.t15, Txt(<<"0", ".", "3">>), Tok.t02>>)
LOorMany  == Words(<<Tok.t1, Tok.tm01, Tok.t15, Tok.t1e1, Tok.t05>>)
LTrail    == Words(<<Tok.t1, Tok.t05, Tok.t05, Tok.t05, Tok.t05, Tok.tx, Tok.t15>>)
LNan      == Words(<<Tok.t0, Tok.tnan, Tok.t05, Tok.t05, Tok.t05>>)
LInf      == Words(<<Tok.t0, Tok.t05, Tok.t05, Tok.tinf, Tok.t05>>)
\* class 10 with an underscore, exponents, a bare fraction, and a negative
\* number that rounds to zero: all in range
LSci      == Words(<<Tok.t1_0, Tok.t5em1, Tok.t1E0, Tok.tp5, Tok.ttiny>>)
\* class 3 as an Arabic-Indic digit, 0.5 in fullwidth digits, and an em space
\* and a no-break space between the tokens
LUni      == <<1635, 8195, 65296, DOT, 65301, 160>> \o Tok.t05 \o <<8195>> \o Tok.t1E0 \o SP \o Tok.tp5 \o NL
LShort    == Words(<<Tok.t0, Tok.t05, Tok.t05>>)
LShortBad == Words(<<Tok.tx, Tok.tabc, Tok.tm01, Tok.t15>>)
LBlank    == NL
LBadCls   == Words(<<Tok.t10, Tok.t05, Tok.t05, Tok.t05, Tok.t05>>)
LBadCoord == Words(<<Tok.t0, Tok.t05, Tok.tabc, Tok.t15, Tok.t05>>)

LineUniverse == {LGood0, LGood1, LEdge, LOorMany, LTrail, LNan, LInf, LSci, LUni,
                 LShort, LShortBad, LBlank, LBadCls, LBadCoord}

\* a line as readlines() gives it in text mode: not empty, no carriage return
\* (it is read as a newline), and a newline nowhere but at its end
IsLine(l) ==
    /\ l # <<>>
    /\ \A i \in 1..Len(l) : l[i] # 13 /\ (l[i] = 10 => i = Len(l))

\* a list readlines() can return: every line but the last ends with a newline
CanBeRead(ls) ==
    \A i \in 1..Len(ls) :
        IsLine(ls[i]) /\ (i < Len(ls) => ls[i][Len(ls[i])] = 10)

\* what readlines() may return: at most MaxLines lines
Contents == {ls \in UNION {[1..n -> LineUniverse] : n \in 0..MaxLines} : CanBeRead(ls)}

File(dirs, name, node) == [path |-> dirs \o <<name>>, node |-> node]

A_JPG  == Txt(<<"a", ".", "j", "p", "g">>)
A_TXT  == Txt(<<"a", ".", "t", "x", "t">>)
B_JPG  == Txt(<<"b", ".", "j", "p", "g">>)
B_TXT  == Txt(<<"b", ".", "t", "x", "t">>)
C_PNG  == Txt(<<"c", ".", "p", "n", "g">>)
C_TXT  == Txt(<<"c", ".", "t", "x", "t">>)
D_JPG  == Txt(<<"D", ".", "J", "P", "G">>)
E_PNG  == Txt(<<"E", ".", "P", "n", "g">>)
F_JPEG == Txt(<<"f", ".", "j", "p", "e", "g">>)
F_TXT  == Txt(<<"f", ".", "t", "x", "t">>)
G_GIF  == Txt(<<"g", ".", "g", "i", "f">>)
H_JPG  == Txt(<<".", "h", ".", "j", "p", "g">>)
K_BMP  == Txt(<<"k", ".", "b", "m", "p">>)
Z_PNG  == Txt(<<"z", ".", "p", "n", "g">>)

OSNames == {"posix", "nt"}

\* the entries a split directory of the enumerated tree is drawn from
SplitUniverse(s) ==
    { [path |-> <<s>>, node |-> DirNode],
      File(<<s>>, A_JPG, ImageNode(TRUE)),
      File(<<s>>, A_TXT, TextNode(<<LGood0, LOor>>)),
      File(<<s, IMAGES>>, B_JPG, ImageNode(TRUE)),
      File(<<s, LABELS>>, B_TXT, TextNode(<<LBadCls, LGood1>>)),
      File(<<s, IMAGES>>, B_TXT, TextNode(<<>>)),
      File(<<s>>, C_PNG, ImageNode(FALSE)),
      File(<<s>>, C_TXT, TextNode(<<LGood0>>)),
      File(<<s>>, D_JPG, ImageNode(TRUE)),
      File(<<s>>, E_PNG, ImageNode(TRUE)),
      File(<<s, IMAGES>>, F_JPEG, ImageNode(TRUE)),
      File(<<s, LABELS>>, F_TXT, UnreadableNode),
      File(<<s>>, G_GIF, ImageNode(TRUE)),
      File(<<s>>, H_JPG, ImageNode(TRUE)),
      File(<<s>>, K_BMP, DirNode) }

\* the entries a split directory of the whole run is drawn from
MainUniverse(s) ==
    { [path |-> <<s>>, node |-> DirNode],
      File(<<s>>, A_JPG, ImageNode(TRUE)),
      File(<<s>>, A_TXT, TextNode(<<LGood0>>)),
      File(<<s>>, C_PNG, ImageNode(FALSE)) }

Trees(universe, k) == {t \in SUBSET universe : Cardinality(t) <= k}

MainDisks ==
    {tr \cup te \cup va : tr \in Trees(MainUniverse(TRAIN), MaxMainFiles),
                          te \in Trees(MainUniverse(TEST), MaxMainFiles),
                          va \in Trees(MainUniverse(VAL), MaxMainFiles)}

SplitDisks == Trees(SplitUniverse(TRAIN), MaxFiles)

\* one image whose annotation file holds any content, or cannot be read,
\* and a second image after it
LabelDisks ==
    {{File(<<TRAIN>>, A_JPG, ImageNode(TRUE)), File(<<TRAIN>>, A_TXT, n),
      File(<<TRAIN>>, Z_PNG, ImageNode(TRUE))} :
        n \in {TextNode(c) : c \in Contents} \cup {UnreadableNode}}

(***************************************************************************)
(* The program.                                                            *)
(***************************************************************************)
InitRun ==
    /\ returned = <<>>
    /\ log = <<>>
    /\ pc = "main"
    /\ images_list = {}
    /\ visited = {}
    /\ stats = None
    /\ label_path = None
    /\ lines = <<>>
    /\ handed = 0

\* main: check_integrity on train, test, val, then the three print_report
Init ==
    /\ InitRun
    /\ os_name \in OSNames
    /\ disk \in MainDisks
    /\ calls = SplitOrder
    /\ prints = <<1, 2, 3>>

\* check_integrity called twice on the same split of an unchanged tree
InitSplit ==
    /\ InitRun
    /\ os_name \in OSNames
    /\ disk \in SplitDisks
    /\ calls = <<TRAIN, TRAIN>>
    /\ prints = <<>>

\* check_integrity on a split whose annotation file is enumerated; its file
\* names are lower-case, so that the platform makes no difference to the run
InitLabel ==
    /\ InitRun
    /\ os_name = "posix"
    /\ disk \in LabelDisks
    /\ calls = <<TRAIN>>
    /\ prints = <<>>

\* FolderResult without the check for an empty images_list
FolderResultNoEmptyCheck(d, folder_name) ==
    IF ~Exists(d, <<folder_name>>) THEN "not found" ELSE "scan"

\* lines 38-65: the folder is missing or holds no image (None is returned),
\* or the report is created and the loop begins
FolderResult(d, folder_name) ==
    IF ~Exists(d, <<folder_name>>) THEN "not found"
    ELSE IF GlobAll(d, <<folder_name>>) = {} THEN "no images"
    ELSE "scan"

check_integrity ==
    /\ pc = "main"
    /\ calls # <<>>
    /\ IF FolderResult(disk, Head(calls)) = "scan"
       THEN /\ images_list' = GlobAll(disk, <<Head(calls)>>)
            /\ stats' = NewStats(GlobCount(disk, <<Head(calls)>>))
            /\ pc' = "loop"
            /\ UNCHANGED <<calls, returned>>
       ELSE /\ returned' = Append(returned, None)
            /\ calls' = Tail(calls)
            /\ UNCHANGED <<images_list, stats, pc>>
    /\ visited' = {}
    /\ handed' = 0
    /\ UNCHANGED <<os_name, disk, prints, log, label_path, lines>>

\* lines 67-86: one pass of the loop over images_list
for_img_path ==
    /\ pc = "loop"
    /\ \E img_path \in NextImages :
          LET r == CheckImage(disk, stats, img_path) IN
          /\ visited' = visited \cup {img_path}
          /\ stats' = r.stats
          /\ label_path' = r.label
          /\ pc' = IF r.label = None THEN "loop" ELSE "label"
          /\ handed' = IF r.label = None THEN handed ELSE handed + 1
    /\ UNCHANGED <<os_name, disk, calls, prints, returned, log, images_list, lines>>

\* lines 127-133 and 155-156: _process_label reads the file
process_label ==
    /\ pc = "label"
    /\ LET r == OpenLabel(disk, stats, label_path) IN
          /\ stats' = r.stats
          /\ lines' = r.lines
          /\ pc' = IF r.lines = <<>> THEN "loop" ELSE "lines"
    /\ UNCHANGED <<os_name, disk, calls, prints, returned, log, images_list,
                   visited, label_path, handed>>

\* lines 135-154: one pass of the loop over lines
for_line ==
    /\ pc = "lines"
    /\ stats' = ProcessLine(stats, label_path, Head(lines))
    /\ lines' = Tail(lines)
    /\ pc' = IF Tail(lines) = <<>> THEN "loop" ELSE "lines"
    /\ UNCHANGED <<os_name, disk, calls, prints, returned, log, images_list,
                   visited, label_path, handed>>

\* line 88: return stats
return_stats ==
    /\ pc = "loop"
    /\ visited = images_list
    /\ returned' = Append(returned, stats)
    /\ calls' = Tail(calls)
    /\ pc' = "main"
    /\ stats' = None
    /\ UNCHANGED <<os_name, disk, prints, log, images_list, visited, label_path,
                   lines, handed>>

Min(a, b) == IF a < b THEN a ELSE b

\* what print_report logs for a report: the name in capitals, the counts, the
\* first 10 errors and how many more there are
Report(st, name) ==
    [name |-> UpperStr(name),
     total_images |-> st.total_images,
     corrupt_images |-> st.corrupt_images,
     empty_labels |-> st.empty_labels,
     missing_labels |-> st.missing_labels,
     valid_objects |-> st.valid_objects,
     class_counts |-> st.class_counts,
     issues |-> Len(st.errors),
     shown |-> SubSeq(st.errors, 1, Min(10, Len(st.errors))),
     more |-> Len(st.errors) - Min(10, Len(st.errors))]

\* print_report(stats, name): nothing for None
Emit(lg, st, name) == IF st = None THEN lg ELSE Append(lg, Report(st, name))

\* lines 199-201: the next print_report of main
print_report ==
    /\ pc = "main"
    /\ calls = <<>>
    /\ prints # <<>>
    /\ log' = Emit(log, returned[Head(prints)], SplitOrder[Head(prints)])
    /\ prints' = Tail(prints)
    /\ UNCHANGED <<os_name, disk, calls, returned, pc, images_list, visited,
                   stats, label_path, lines, handed>>

NextCheck == check_integrity \/ for_img_path \/ process_label \/ for_line \/ return_stats

Next == NextCheck \/ print_report

Spec == Init /\ [][Next]_vars

SpecSplit == InitSplit /\ [][NextCheck]_vars

SpecLabel == InitLabel /\ [][NextCheck]_vars


(***************************************************************************)
(* Vocabulary of the properties.                                           *)
(***************************************************************************)
Last(seq) == seq[Len(seq)]

\* the run is over: every call and every print of the driver has been made
Finished == pc = "main" /\ calls = <<>> /\ prints = <<>>

\* the tokens of an annotation line
TokensOf(line) == Split(Strip(line))

\* at least 5 tokens, an integer class id, four floats
WellFormed(line) ==
    /\ Len(TokensOf(line)) >= 5
    /\ ParseInt(TokensOf(line)[1]).ok
    /\ \A i \in 2..5 : ParseFloat(TokensOf(line)[i]).ok

\* at least 5 tokens, and the class id or one of the coordinates does not parse
Malformed(line) == Len(TokensOf(line)) >= 5 /\ ~WellFormed(line)

ClassOf(line) == ParseInt(TokensOf(line)[1]).val

\* a parsed coordinate is a number of the closed interval [0,1]
InUnitInterval(c) == c.kind = "fin" /\ ~LtZero(c) /\ ~GtOne(c)

AllInRange(line) == \A i \in 2..5 : InUnitInterval(ParseFloat(TokensOf(line)[i]))

\* the annotation file of the enumerated image of SpecLabel
TheLabel == <<TRAIN, A_TXT>>

WellFormedCount(ls) == Cardinality({i \in 1..Len(ls) : WellFormed(ls[i])})

\* a report without the order of its errors
Counts(r) == IF r = None THEN None ELSE [r EXCEPT !.errors = Len(r.errors)]

\* C1: in the report of a split every enumerated image has exactly one of the
\* outcomes corrupt, missing annotation, annotation handed to _process_label:
\* the three counts add up to the images gone through so far and, in the
\* report returned, to total_images; the corrupt count is the number of
\* images gone through that do not verify (none of them is counted as missing
\* or handed over), and it never exceeds total_images.
C1_OneOutcomePerImage ==
    /\ stats # None =>
          /\ stats.corrupt_images + stats.missing_labels + handed = Cardinality(visited)
          /\ stats.corrupt_images = Cardinality({p \in visited : ~ImageOK(disk, p)})
          /\ stats.corrupt_images <= stats.total_images
    /\ (pc = "main" /\ returned # <<>> /\ Last(returned) # None) =>
          /\ Last(returned).corrupt_images + Last(returned).missing_labels + handed
                = Last(returned).total_images
          /\ Last(returned).corrupt_images <= Last(returned).total_images

\* a returned report in which all three outcomes occurred
C1_Witness ==
    /\ pc = "main" /\ returned # <<>> /\ Last(returned) # None
    /\ Last(returned).corrupt_images > 0
    /\ Last(returned).missing_labels > 0
    /\ handed > 0

\* C2: a line with at least 5 tokens, an integer class id c and four floats
\* adds exactly 1 to valid_objects and to class_counts[c] (creating the entry)
\* and changes no other class's count, in range or not, whatever follows the
\* fifth token; the file "0 0.5 0.5 0.2 0.2" / "1 0.1 0.1 0.05 0.05" gives
\* class_counts {0: 1, 1: 1} and valid_objects 2.
C2_WellFormedLineCounted ==
    /\ [][(pc = "lines" /\ WellFormed(Head(lines))) =>
            /\ stats'.valid_objects = stats.valid_objects + 1
            /\ DOMAIN stats'.class_counts
                  = DOMAIN stats.class_counts \cup {ClassOf(Head(lines))}
            /\ \A k \in DOMAIN stats'.class_counts :
                  stats'.class_counts[k] =
                     Get(stats.class_counts, k)
                       + (IF k = ClassOf(Head(lines)) THEN 1 ELSE 0)]_vars
    /\ []((returned # <<>> /\ CanRead(disk, TheLabel)
             /\ ReadLines(disk, TheLabel) = <<LGood0, LGood1>>) =>
            /\ returned[1].class_counts = (0 :> 1 @@ 1 :> 1)
            /\ returned[1].valid_objects = 2)

\* an out-of-range line and a line with trailing tokens, both of class 1,
\* after a line of class 0: all three counted
C2_Witness ==
    /\ returned # <<>>
    /\ CanRead(disk, TheLabel)
    /\ ReadLines(disk, TheLabel) = <<LGood0, LOorMany, LTrail>>
    /\ returned[1].valid_objects = 3
    /\ returned[1].class_counts = (0 :> 1 @@ 1 :> 2)

\* C3: a parsed line with a coordinate outside [0,1] appends exactly one error
\* naming the annotation file and is still counted; a parsed line whose four
\* coordinates are all in [0,1] appends no error.
C3_OutOfRangeReportedOnce ==
    [][(pc = "lines" /\ WellFormed(Head(lines))) =>
          /\ stats'.valid_objects = stats.valid_objects + 1
          /\ Get(stats'.class_counts, ClassOf(Head(lines)))
                = Get(stats.class_counts, ClassOf(Head(lines))) + 1
          /\ IF AllInRange(Head(lines))
             THEN stats'.errors = stats.errors
             ELSE stats'.errors = Append(stats.errors, CoordError(label_path))]_vars

\* C4: a line with fewer than 5 tokens, a blank line included, leaves the
\* whole report unchanged.
C4_ShortLineIgnored ==
    [][(pc = "lines" /\ Len(TokensOf(Head(lines))) < 5) => stats' = stats]_vars

\* a file of three short lines has been gone through and the report shows
\* nothing of it
C4_Witness ==
    /\ returned # <<>>
    /\ CanRead(disk, TheLabel)
    /\ ReadLines(disk, TheLabel) = <<LShort, LBlank, LShortBad>>
    /\ returned[1].valid_objects = 0
    /\ returned[1].errors = <<>>
    /\ returned[1].empty_labels = 0

\* C5: an annotation file with zero lines adds exactly 1 to empty_labels and
\* leaves every other field of the report unchanged; empty_labels grows by at
\* most 1 for an image handed to _process_label.
C5_EmptyFileCounted ==
    /\ [][(pc = "label" /\ CanRead(disk, label_path)
             /\ ReadLines(disk, label_path) = <<>>) =>
            stats' = [stats EXCEPT !.empty_labels = @ + 1]]_vars
    /\ [](stats # None => stats.empty_labels <= handed)

\* the zero-line file has been processed
C5_Witness ==
    /\ returned # <<>>
    /\ CanRead(disk, TheLabel)
    /\ ReadLines(disk, TheLabel) = <<>>
    /\ returned[1].empty_labels = 1
    /\ returned[1].valid_objects = 0

\* the image the loop has just gone through
Current(before, after) == CHOOSE p \in after \ before : TRUE

\* C6: for an image that verifies, the annotation file is the .txt beside it
\* if that exists, else, only when the path has a segment "images", the .txt
\* at the path with that segment replaced by "labels" if that exists; when
\* neither exists missing_labels grows by 1 and nothing else of the report
\* changes (no error is added).
C6_LabelLookup ==
    [][(pc = "loop" /\ visited' # visited
          /\ ImageOK(disk, Current(visited, visited'))) =>
         LET img == Current(visited, visited') IN
         IF Exists(disk, SameDirLabel(img))
         THEN label_path' = SameDirLabel(img) /\ pc' = "label" /\ stats' = stats
         ELSE IF InSeq(img, IMAGES) /\ Exists(disk, ParallelLabel(img))
         THEN label_path' = ParallelLabel(img) /\ pc' = "label" /\ stats' = stats
         ELSE /\ stats' = [stats EXCEPT !.missing_labels = @ + 1]
              /\ pc' = "loop"]_vars

\* both annotation files exist and the one beside the image is being processed
C6_Witness ==
    /\ pc = "label"
    /\ label_path = <<TRAIN, IMAGES, B_TXT>>
    /\ Exists(disk, <<TRAIN, LABELS, B_TXT>>)

AllowListed(name) ==
    \E k \in 1..Len(IMG_FORMATS) : LowerStr(Suffix(name)) = IMG_FORMATS[k]

\* the files below a folder whose extension is on the allow-list whatever its
\* case; the claim is read with glob's own conventions: hidden names are left
\* out and a directory of such a name is let through
ImageFiles(d, folder_path) ==
    {p \in Below(d, folder_path) :
        /\ \A i \in (Len(folder_path) + 1)..Len(p) : ~IsHidden(p[i])
        /\ AllowListed(Name(p))}

\* C7: the images enumerated are exactly the files below the split directory
\* whose extension is .jpg, .jpeg, .png or .bmp in any case, each counted once.
C7_CaseInsensitiveEnumeration ==
    /\ pc = "loop" =>
          /\ images_list = ImageFiles(disk, <<Head(calls)>>)
          /\ stats.total_images = Cardinality(ImageFiles(disk, <<Head(calls)>>))
    /\ (pc = "main" /\ returned # <<>> /\ Last(returned) = None) =>
          ImageFiles(disk, <<TRAIN>>) = {}

\* a split has a report exactly when its directory exists and holds an image
HasReport(s) == Exists(disk, <<s>>) /\ GlobAll(disk, <<s>>) # {}

\* the names of the first n splits that have a report
ReportedAmong(n) == SelectSeq(SubSeq(SplitOrder, 1, n), HasReport)

\* C8: a split whose directory is absent or holds no matching image gets no
\* report and nothing is printed for it; the run goes on: the three splits are
\* validated in the order train, test, val and a report is printed for exactly
\* the splits whose report is present.
C8_AbsentSplitsSkipped ==
    /\ Len(returned) <= 3
    /\ pc = "main" => calls = SubSeq(SplitOrder, Len(returned) + 1, 3)
    /\ \A k \in 1..Len(returned) : (returned[k] = None) <=> ~HasReport(SplitOrder[k])
    /\ [i \in 1..Len(log) |-> log[i].name]
           = [i \in 1..Len(ReportedAmong(3 - Len(prints))) |->
                 UpperStr(ReportedAmong(3 - Len(prints))[i])]
    /\ Finished => Len(returned) = 3

\* the run is over with one split absent, one empty and one reported
C8_Witness ==
    /\ Finished
    /\ ~Exists(disk, <<TRAIN>>)
    /\ Exists(disk, <<TEST>>) /\ returned[2] = None
    /\ returned[3] # None
    /\ Len(log) = 1

\* C9: two runs of check_integrity on the same unchanged tree, each going
\* through the images in any order the enumeration allows, return the same
\* counts (and the same number of errors); the second starts from scratch.
C9_CountsIndependentOfOrder ==
    Len(returned) = 2 => Counts(returned[1]) = Counts(returned[2])

\* two runs whose errors came in different orders
C9_Witness ==
    /\ Len(returned) = 2
    /\ returned[1] # None
    /\ returned[1].errors # returned[2].errors
    /\ returned[1].class_counts # <<>>

\* C10: a line with at least 5 tokens whose class id or a coordinate does not
\* parse appends exactly one error naming the annotation file and changes
\* nothing else of the report; the loop goes on with the next line, so the
\* report returned counts every well-formed line of the file, and the image
\* after it has been processed.
C10_MalformedLineSkipped ==
    /\ [][(pc = "lines" /\ Malformed(Head(lines))) =>
            /\ stats' = [stats EXCEPT !.errors = Append(@, ParseError(label_path))]
            /\ lines' = Tail(lines)
            /\ pc' = IF Tail(lines) = <<>> THEN "loop" ELSE "lines"]_vars
    /\ []((returned # <<>> /\ CanRead(disk, TheLabel)) =>
            /\ returned[1].valid_objects = WellFormedCount(ReadLines(disk, TheLabel))
            /\ returned[1].missing_labels = 1
            /\ visited = images_list)

\* a malformed line between two well-formed ones
C10_Witness ==
    /\ returned # <<>>
    /\ CanRead(disk, TheLabel)
    /\ ReadLines(disk, TheLabel) = <<LGood0, LBadCoord, LGood1>>
    /\ returned[1].valid_objects = 2
    /\ Len(returned[1].errors) = 1

=============================================================================
